---- MODULE Spec2Model ----
(***************************************************************************)
(* A model of scrapemaster_colab.py: the text chunker, the response        *)
(* parser, the output-token budget and the sequential run loop with its    *)
(* per-domain aggregation.                                                 *)
(*                                                                         *)
(* Text is a sequence of symbols.  A symbol is one character, except for   *)
(* a few fixed character groups that the code only ever treats as a whole  *)
(* and that are written as one symbol:                                     *)
(*   "fence3"    three backticks (a code fence)                            *)
(*   "\\u0060x3" the JSON escape of three backticks, inside a string      *)
(*   "json"      the four letters of the fence label                       *)
(*   "listings"  the eight letters of the key                              *)
(*   "http://"   a URL scheme with its two slashes                         *)
(*   "www."      the host prefix that get_domain_name removes              *)
(*   "a.com", "b.com"  host names                                          *)
(***************************************************************************)
EXTENDS Integers, Sequences, FiniteSets, TLC

VARIABLES
    \* chunk_content applied to one input
    content, chunk_size, chunks, cpc,
    \* parse_api_response applied to one raw model output, then to the
    \* serialized form of its result
    raw_text, presult, dumped, reparsed, ppc,
    \* main: the configuration, the position in the run and its locals
    config, pc, run_status, url_idx, page_chunks, chunk_idx, chunk_results,
    domain_results, save_idx, saved,
    \* history of the run: the provider's answer to the last chunk sent and what
    \* process_with_api made of it, the page's record list before that call,
    \* whether a completion call of the current page failed, and the records of
    \* every chunk result so far, by domain
    last_outcome, last_result, prev_results, failed_in_page, extracted,
    \* process_with_api's request for one chunk: the provider preset, the word
    \* count of each field name and of the chunk, the max_tokens value sent
    api_provider, field_words, content_words, max_tokens_sent, bpc

chunkVars == <<content, chunk_size, chunks, cpc>>
parseVars == <<raw_text, presult, dumped, reparsed, ppc>>
runVars == <<config, pc, run_status, url_idx, page_chunks, chunk_idx, chunk_results,
             domain_results, save_idx, saved,
             last_outcome, last_result, prev_results, failed_in_page, extracted>>
budgetVars == <<api_provider, field_words, content_words, max_tokens_sent, bpc>>
vars == <<chunkVars, parseVars, runVars, budgetVars>>

(***************************************************************************)
(* Bounds of the model                                                     *)
(***************************************************************************)
MaxTextLen == 5
MaxChunkSize == 3
MaxUrls == 2
MaxContentWords == 6

(***************************************************************************)
(* Python string primitives                                                *)
(***************************************************************************)
\* str.isspace() for the characters of the model
Whitespace == {" ", "\n", "\t"}

\* All sequences over S of length at most n
SeqUpTo(S, n) == UNION {[1..k -> S] : k \in 0..n}

\* s[a:b] with 1-based inclusive bounds; empty when a > b
Slice(s, a, b) == IF a > b THEN <<>> ELSE SubSeq(s, a, b)

\* str.replace(old, new) for single characters
StrReplace(s, old, new) == [i \in 1..Len(s) |-> IF s[i] = old THEN new ELSE s[i]]

\* index of the first occurrence of character c in s at or after position i, 0 when absent
RECURSIVE FindFrom(_, _, _)
FindFrom(s, c, i) ==
    IF i > Len(s) THEN 0
    ELSE IF s[i] = c THEN i
    ELSE FindFrom(s, c, i + 1)

\* str.split(c) for a single character c: never an empty list
RECURSIVE StrSplit(_, _)
StrSplit(s, c) ==
    LET k == FindFrom(s, c, 1) IN
    IF k = 0 THEN <<s>>
    ELSE <<Slice(s, 1, k - 1)>> \o StrSplit(Slice(s, k + 1, Len(s)), c)

RECURSIVE LStrip(_)
LStrip(s) == IF s # <<>> /\ Head(s) \in Whitespace THEN LStrip(Tail(s)) ELSE s

RECURSIVE RStrip(_)
RStrip(s) ==
    IF s # <<>> /\ s[Len(s)] \in Whitespace THEN RStrip(Slice(s, 1, Len(s) - 1)) ELSE s

\* str.strip()
StrStrip(s) == RStrip(LStrip(s))

\* len(s.split()): the number of maximal runs of non-whitespace
WordCount(s) ==
    Cardinality({i \in 1..Len(s) :
        /\ s[i] \notin Whitespace
        /\ (i = 1 \/ s[i - 1] \in Whitespace)})

\* sep.join(parts)
RECURSIVE StrJoin(_, _)
StrJoin(parts, sep) ==
    IF parts = <<>> THEN <<>>
    ELSE IF Len(parts) = 1 THEN parts[1]
    ELSE parts[1] \o sep \o StrJoin(Tail(parts), sep)

(***************************************************************************)
(* chunk_content                                                           *)
(***************************************************************************)
\* len(sentence.split()) * 1.3, in tenths of a token.  Sizes are kept in
\* tenths so that the comparison with the budget is exact; the float sum of
\* the code differs from the exact sum only by rounding, which can matter
\* only when 13 * words = 10 * budget, i.e. from ten words on.
sentence_size(sentence) == WordCount(sentence) * 13

\* '. '.join(current_chunk) + '.'
close_chunk(current_chunk) == StrJoin(current_chunk, <<".", " ">>) \o <<".">>

\* Mutant of chunk_step: on overflow the closed chunk is emitted and the
\* accumulator restarts empty, so the overflowing sentence is lost
chunk_step_drop(st, raw, max_size) ==
    LET sentence == StrStrip(raw) IN
    IF sentence = <<>> THEN st
    ELSE IF st.current_size + sentence_size(sentence) > max_size * 10
         THEN [chunks |-> IF st.current_chunk # <<>>
                          THEN Append(st.chunks, close_chunk(st.current_chunk))
                          ELSE st.chunks,
               current_chunk |-> <<>>,
               current_size |-> 0]
         ELSE [chunks |-> st.chunks,
               current_chunk |-> Append(st.current_chunk, sentence),
               current_size |-> st.current_size + sentence_size(sentence)]

\* Mutant of chunk_step: the test looks at the sentence alone, not at the running size
chunk_step_nosum(st, raw, max_size) ==
    LET sentence == StrStrip(raw) IN
    IF sentence = <<>> THEN st
    ELSE IF sentence_size(sentence) > max_size * 10
         THEN [chunks |-> IF st.current_chunk # <<>>
                          THEN Append(st.chunks, close_chunk(st.current_chunk))
                          ELSE st.chunks,
               current_chunk |-> <<sentence>>,
               current_size |-> sentence_size(sentence)]
         ELSE [chunks |-> st.chunks,
               current_chunk |-> Append(st.current_chunk, sentence),
               current_size |-> st.current_size + sentence_size(sentence)]

\* The body of the loop for one sentence; st = [chunks, current_chunk, current_size]
chunk_step(st, raw, max_size) ==
    LET sentence == StrStrip(raw) IN
    IF sentence = <<>> THEN st
    ELSE IF st.current_size + sentence_size(sentence) > max_size * 10
         THEN [chunks |-> IF st.current_chunk # <<>>
                          THEN Append(st.chunks, close_chunk(st.current_chunk))
                          ELSE st.chunks,
               current_chunk |-> <<sentence>>,
               current_size |-> sentence_size(sentence)]
         ELSE [chunks |-> st.chunks,
               current_chunk |-> Append(st.current_chunk, sentence),
               current_size |-> st.current_size + sentence_size(sentence)]

RECURSIVE chunk_loop(_, _, _)
chunk_loop(st, sentences, max_size) ==
    IF sentences = <<>> THEN st
    ELSE chunk_loop(chunk_step(st, Head(sentences), max_size), Tail(sentences), max_size)

chunk_content(text, max_size) ==
    LET sentences == StrSplit(StrReplace(text, "\n", " "), ".")
        st == chunk_loop([chunks |-> <<>>, current_chunk |-> <<>>, current_size |-> 0],
                         sentences, max_size)
    IN IF st.current_chunk # <<>>
       THEN Append(st.chunks, close_chunk(st.current_chunk))
       ELSE st.chunks

(***************************************************************************)
(* JSON values, json.loads and json.dump                                   *)
(*                                                                         *)
(* A JSON value is a record [t, v]: a string (v its characters), an        *)
(* integer, an array (v the sequence of its items) or an object (v the     *)
(* sequence of its <<key, value>> pairs in insertion order, keys unique,   *)
(* as a Python dict keeps them).                                           *)
(***************************************************************************)
Quote == "\""
Fence == "fence3"
EscapedFence == "\\u0060x3"

JStr(cs) == [t |-> "str", v |-> cs]
JNum(n) == [t |-> "num", v |-> n]
JArr(items) == [t |-> "arr", v |-> items]
JObj(pairs) == [t |-> "obj", v |-> pairs]

IsDict(j) == j.t = "obj"
IsList(j) == j.t = "arr"

\* key in d
HasKey(d, key) == \E i \in 1..Len(d.v) : d.v[i][1] = key

\* d[key], for a key of d
GetKey(d, key) == d.v[CHOOSE i \in 1..Len(d.v) : d.v[i][1] = key][2]

\* d[key] = val on the pair sequence: a repeated key keeps its place and takes the new value
SetKey(pairs, key, val) ==
    IF \E i \in 1..Len(pairs) : pairs[i][1] = key
    THEN [i \in 1..Len(pairs) |-> IF pairs[i][1] = key THEN <<key, val>> ELSE pairs[i]]
    ELSE Append(pairs, <<key, val>>)

ListingsKey == <<"listings">>

\* {"listings": []}
EmptyListings == JObj(<<<<ListingsKey, JArr(<<>>)>>>>)

\* The first position at or after i that holds no JSON whitespace
RECURSIVE SkipWS(_, _)
SkipWS(s, i) ==
    IF i <= Len(s) /\ s[i] \in Whitespace THEN SkipWS(s, i + 1) ELSE i

DecodeFail == [ok |-> FALSE, val |-> JNum(0), next |-> 0]
Decoded(val, next) == [ok |-> TRUE, val |-> val, next |-> next]

\* A string literal starting at the quote s[i]: up to the next quote, no raw
\* control character inside, the escape decoded
ParseString(s, i) ==
    LET j == FindFrom(s, Quote, i + 1)
        body == Slice(s, i + 1, j - 1)
    IN IF j = 0 \/ \E k \in 1..Len(body) : body[k] \in {"\n", "\t"}
       THEN DecodeFail
       ELSE Decoded(JStr([k \in 1..Len(body) |->
                            IF body[k] = EscapedFence THEN Fence ELSE body[k]]),
                    j + 1)

\* An integer literal of digits 1 starting at s[i]
RECURSIVE ParseNumber(_, _, _)
ParseNumber(s, i, acc) ==
    IF i <= Len(s) /\ s[i] = "1" THEN ParseNumber(s, i + 1, acc * 10 + 1)
    ELSE Decoded(JNum(acc), i)

RECURSIVE ParseValue(_, _)
RECURSIVE ParseItems(_, _, _)
RECURSIVE ParseMembers(_, _, _)

\* The items of an array from s[i] on, after "[" or ","
ParseItems(s, i, acc) ==
    LET r == ParseValue(s, i) IN
    IF ~r.ok THEN DecodeFail
    ELSE LET k == SkipWS(s, r.next) IN
         IF k > Len(s) THEN DecodeFail
         ELSE IF s[k] = "," THEN ParseItems(s, SkipWS(s, k + 1), Append(acc, r.val))
         ELSE IF s[k] = "]" THEN Decoded(JArr(Append(acc, r.val)), k + 1)
         ELSE DecodeFail

\* The members of an object from s[i] on, after "{" or ","
ParseMembers(s, i, acc) ==
    IF i > Len(s) \/ s[i] # Quote THEN DecodeFail
    ELSE LET key == ParseString(s, i) IN
         IF ~key.ok THEN DecodeFail
         ELSE LET c == SkipWS(s, key.next) IN
              IF c > Len(s) \/ s[c] # ":" THEN DecodeFail
              ELSE LET r == ParseValue(s, SkipWS(s, c + 1)) IN
                   IF ~r.ok THEN DecodeFail
                   ELSE LET k == SkipWS(s, r.next)
                            pairs == SetKey(acc, key.val.v, r.val)
                        IN IF k > Len(s) THEN DecodeFail
                           ELSE IF s[k] = "," THEN ParseMembers(s, SkipWS(s, k + 1), pairs)
                           ELSE IF s[k] = "}" THEN Decoded(JObj(pairs), k + 1)
                           ELSE DecodeFail

ParseValue(s, i) ==
    IF i > Len(s) THEN DecodeFail
    ELSE IF s[i] = Quote THEN ParseString(s, i)
    ELSE IF s[i] = "1" THEN ParseNumber(s, i, 0)
    ELSE IF s[i] = "[" THEN
        LET j == SkipWS(s, i + 1) IN
        IF j <= Len(s) /\ s[j] = "]" THEN Decoded(JArr(<<>>), j + 1)
        ELSE ParseItems(s, j, <<>>)
    ELSE IF s[i] = "{" THEN
        LET j == SkipWS(s, i + 1) IN
        IF j <= Len(s) /\ s[j] = "}" THEN Decoded(JObj(<<>>), j + 1)
        ELSE ParseMembers(s, j, <<>>)
    ELSE DecodeFail

\* json.loads: one value, whitespace around it allowed, nothing else after it;
\* ok = FALSE stands for json.JSONDecodeError
json_loads(s) ==
    LET r == ParseValue(s, SkipWS(s, 1)) IN
    IF r.ok /\ SkipWS(s, r.next) = Len(s) + 1 THEN r ELSE DecodeFail

\* n spaces
Spaces(n) == [i \in 1..n |-> " "]

\* json.dump(v, indent=2, ensure_ascii=False) at nesting depth d
RECURSIVE json_dump(_, _)
json_dump(j, d) ==
    IF j.t = "str" THEN <<Quote>> \o j.v \o <<Quote>>
    ELSE IF j.t = "num" THEN
        (IF j.v = 0 THEN <<"0">> ELSE [i \in 1..(IF j.v < 10 THEN 1 ELSE IF j.v < 100 THEN 2 ELSE 3) |-> "1"])
    ELSE IF j.t = "arr" THEN
        IF j.v = <<>> THEN <<"[", "]">>
        ELSE <<"[", "\n">>
             \o StrJoin([i \in 1..Len(j.v) |-> Spaces(2 * (d + 1)) \o json_dump(j.v[i], d + 1)],
                        <<",", "\n">>)
             \o <<"\n">> \o Spaces(2 * d) \o <<"]">>
    ELSE
        IF j.v = <<>> THEN <<"{", "}">>
        ELSE <<"{", "\n">>
             \o StrJoin([i \in 1..Len(j.v) |->
                            Spaces(2 * (d + 1)) \o <<Quote>> \o j.v[i][1] \o <<Quote, ":", " ">>
                            \o json_dump(j.v[i][2], d + 1)],
                        <<",", "\n">>)
             \o <<"\n">> \o Spaces(2 * d) \o <<"}">>

(***************************************************************************)
(* parse_api_response                                                      *)
(***************************************************************************)
\* The fenced label in text: a fence directly followed by the label json
HasJsonFence(text) ==
    \E i \in 1..(Len(text) - 1) : text[i] = Fence /\ text[i + 1] = "json"

\* the last position of character c in s, 0 when absent
RFind(s, c) ==
    IF \E i \in 1..Len(s) : s[i] = c
    THEN CHOOSE i \in 1..Len(s) : s[i] = c /\ \A k \in (i + 1)..Len(s) : s[k] # c
    ELSE 0

Returned(value) == [kind |-> "return", value |-> value, exc |-> ""]
Raised(exc) == [kind |-> "raise", value |-> JNum(0), exc |-> exc]

\* The normalisation after a successful decode
normalize_result(result) ==
    IF ~IsDict(result) THEN EmptyListings
    ELSE IF ~HasKey(result, ListingsKey) THEN JObj(<<<<ListingsKey, JArr(<<result>>)>>>>)
    ELSE result

\* The tail shared by the three branches: decode, normalise, catch JSONDecodeError
decode_and_normalize(json_text) ==
    LET r == json_loads(json_text) IN
    IF r.ok THEN Returned(normalize_result(r.val)) ELSE Returned(EmptyListings)

parse_api_response(response_text) ==
    IF HasJsonFence(response_text)
    THEN \* .split(fence + "json")[1].split(fence) is a list: list.strip() raises
         \* AttributeError, which the handler for json.JSONDecodeError does not catch
         Raised("AttributeError")
    ELSE IF \E i \in 1..Len(response_text) : response_text[i] = Fence
    THEN decode_and_normalize(StrStrip(StrSplit(response_text, Fence)[2]))
    ELSE LET start_idx == FindFrom(response_text, "{", 1)
             end_idx == RFind(response_text, "}")
         IN decode_and_normalize(
                IF start_idx # 0 /\ end_idx >= start_idx
                THEN Slice(response_text, start_idx, end_idx)
                ELSE response_text)

(***************************************************************************)
(* get_domain_name                                                         *)
(***************************************************************************)
\* urlparse(url).netloc: what follows the scheme up to the first "/"; empty
\* when the URL has no scheme.  bad = TRUE stands for the ValueError urlparse
\* raises on an unclosed "[" in the host.
urlparse_netloc(url) ==
    IF url = <<>> \/ url[1] # "http://" THEN [bad |-> FALSE, netloc |-> <<>>]
    ELSE LET k == FindFrom(url, "/", 2)
             host == Slice(url, 2, IF k = 0 THEN Len(url) ELSE k - 1)
         IN [bad |-> (\E i \in 1..Len(host) : host[i] = "[")
                     /\ ~(\E i \in 1..Len(host) : host[i] = "]"),
             netloc |-> host]

get_domain_name(url) ==
    LET parsed_uri == urlparse_netloc(url) IN
    IF parsed_uri.bad THEN <<"unknown_domain">>
    ELSE IF parsed_uri.netloc # <<>> /\ parsed_uri.netloc[1] = "www."
         THEN Tail(parsed_uri.netloc)
         ELSE parsed_uri.netloc

(***************************************************************************)
(* process_with_api                                                        *)
(***************************************************************************)
\* Writing JSON text: a string literal, and {"k": v} without spaces for a text v
Lit(cs) == <<Quote>> \o cs \o <<Quote>>

\* {"k": v} without spaces, v already text
ObjText(k, v) == <<"{">> \o Lit(k) \o <<":">> \o v \o <<"}">>

RecordA1 == ObjText(<<"a">>, Lit(<<"1">>))

\* The content texts a 200 answer may carry
ResponseTexts == {
    ObjText(ListingsKey, <<"[">> \o RecordA1 \o <<"]">>),
    ObjText(<<"a">>, Lit(<<"a">>)),
    <<Fence, "json", "\n">> \o ObjText(ListingsKey, <<"[">> \o RecordA1 \o <<"]">>) \o <<"\n", Fence>>,
    ObjText(ListingsKey, <<"1">>),
    <<"n", "o", "t", " ", "json">>
}

\* parse_api_response(response_text.strip()) for each of these texts, computed once
ResponseTable == [t \in ResponseTexts |-> parse_api_response(StrStrip(t))]

\* Line 197-198: the content is stripped and parsed
parse_content(text) ==
    IF text \in ResponseTexts THEN ResponseTable[text] ELSE parse_api_response(StrStrip(text))

\* What the completion call does: requests.post raises ("transport"), a
\* non-200 status ("status"), a 200 whose body does not decode or lacks
\* choices[0].message.content ("serialization"), or a 200 with a content text
ProviderFailures == {"transport", "status", "serialization"}

\* The result for one chunk, given the provider's answer.  Every exception
\* raised inside, that of parse_api_response included, is caught on line 203.
process_with_api(chunk, fields, outcome) ==
    IF outcome.kind \in ProviderFailures THEN Returned(EmptyListings)
    ELSE LET r == parse_content(outcome.text) IN
         IF r.kind = "raise" THEN Returned(EmptyListings) ELSE r

(***************************************************************************)
(* main: the handling of one chunk result, the merge into the domain       *)
(* buckets, save_results                                                   *)
(***************************************************************************)
\* result.get('listings'): None, written as the number 0, when the key is absent
get_listings(result) ==
    IF HasKey(result, ListingsKey) THEN GetKey(result, ListingsKey) ELSE JNum(0)

\* bool(x) of a JSON value
Truthy(j) == IF j.t = "num" THEN j.v # 0 ELSE j.v # <<>>

\* list.extend(x): the items of a list, the characters of a string, the keys
\* of a mapping; ok = FALSE is the TypeError for a number
extend_with(results, j) ==
    IF j.t = "arr" THEN [ok |-> TRUE, list |-> results \o j.v]
    ELSE IF j.t = "str" THEN [ok |-> TRUE, list |-> results \o [i \in 1..Len(j.v) |-> JStr(<<j.v[i]>>)]]
    ELSE IF j.t = "obj" THEN [ok |-> TRUE, list |-> results \o [i \in 1..Len(j.v) |-> JStr(j.v[i][1])]]
    ELSE [ok |-> FALSE, list |-> results]

\* Lines 298-299: if result and result.get('listings'): chunk_results.extend(...)
collect_chunk(results, result) ==
    IF result.v # <<>> /\ Truthy(get_listings(result))
    THEN extend_with(results, get_listings(result))
    ELSE [ok |-> TRUE, list |-> results]

\* Lines 302-305 on the ordered mapping domain -> records
merge_page(buckets, domain, results) ==
    IF results = <<>> THEN buckets
    ELSE IF \E i \in 1..Len(buckets) : buckets[i].domain = domain
    THEN [i \in 1..Len(buckets) |->
             IF buckets[i].domain = domain
             THEN [domain |-> domain, results |-> buckets[i].results \o results]
             ELSE buckets[i]]
    ELSE Append(buckets, [domain |-> domain, results |-> results])

\* The URL list as the JSON value stored under source_url
UrlsValue(urls) == JArr([i \in 1..Len(urls) |-> JStr(urls[i])])

\* Lines 241-242: listing['source_url'] = urls for each listing in turn; an
\* item that is no mapping raises TypeError there and the rest stays untouched
RECURSIVE tag_listings(_, _)
tag_listings(listings, urls) ==
    IF listings = <<>> THEN [ok |-> TRUE, list |-> <<>>]
    ELSE IF ~IsDict(Head(listings)) THEN [ok |-> FALSE, list |-> listings]
    ELSE LET rest == tag_listings(Tail(listings), urls) IN
         [ok |-> rest.ok,
          list |-> <<JObj(SetKey(Head(listings).v, <<"source_url">>, UrlsValue(urls)))>>
                   \o rest.list]

\* save_results: what becomes of the bucket's records, and whether the files
\* were written (io = "error": a write fails inside the try block)
save_results(results, domain, urls, io) ==
    LET tagged == tag_listings(results, urls) IN
    [domain |-> domain,
     listings |-> tagged.list,
     written |-> tagged.ok /\ io = "ok"]

(***************************************************************************)
(* The output-token budget of process_with_api                             *)
(***************************************************************************)
MAX_TOKENS_TOGETHER == 131072
MAX_TOKENS_GROQ == 128000
MAX_OUTPUT_TOKENS_GROQ == 8000
MAX_OUTPUT_TOKENS_TOGETHER == 4096

\* len(SYSTEM_MESSAGE.split())
SystemPromptWords == 48

\* The words of the user prompt that do not depend on the fields or the chunk:
\* "Extract the following fields from the content:" (7), "Format the output
\* EXACTLY as:" (5), the lines "{", "listings":, "[" (3), "]", "}", "Content:" (3)
UserTemplateWords == 18

\* config.max_tokens and config.max_output_tokens of Config.load_config
config_max_tokens(provider) ==
    IF provider = "groq" THEN MAX_TOKENS_GROQ ELSE MAX_TOKENS_TOGETHER

config_max_output_tokens(provider) ==
    IF provider = "groq" THEN MAX_OUTPUT_TOKENS_GROQ ELSE MAX_OUTPUT_TOKENS_TOGETHER

RECURSIVE SumSeq(_)
SumSeq(ns) == IF ns = <<>> THEN 0 ELSE Head(ns) + SumSeq(Tail(ns))

\* len(user_prompt.split()): the template, the field names joined with ", ",
\* the example record (a field of w words gives w + 1 words there, "{}" is one
\* word without fields), and the chunk
user_prompt_words(fws, cw) ==
    UserTemplateWords + SumSeq(fws)
    + (IF fws = <<>> THEN 1 ELSE SumSeq(fws) + Len(fws))
    + cw

\* Line 171
prompt_tokens(fws, cw) == SystemPromptWords + user_prompt_words(fws, cw)

Min(a, b) == IF a <= b THEN a ELSE b
Max(a, b) == IF a >= b THEN a ELSE b

\* Lines 172-175: the value sent as max_tokens
max_output(provider, fws, cw) ==
    Min(config_max_output_tokens(provider),
        config_max_tokens(provider) - prompt_tokens(fws, cw))

(***************************************************************************)
(* The parts of the state a specification does not use stay idle           *)
(***************************************************************************)
ChunkIdle ==
    /\ content = <<>>
    /\ chunk_size = 0
    /\ chunks = <<>>
    /\ cpc = "idle"

ParseIdle ==
    /\ raw_text = <<>>
    /\ presult = Returned(EmptyListings)
    /\ dumped = <<>>
    /\ reparsed = Returned(EmptyListings)
    /\ ppc = "idle"

NoOutcome == [kind |-> "none", text |-> <<>>]

RunIdle ==
    /\ config = [urls |-> <<>>, fields |-> <<>>, chunk_size |-> 0]
    /\ pc = "idle"
    /\ run_status = "idle"
    /\ url_idx = 0
    /\ page_chunks = <<>>
    /\ chunk_idx = 0
    /\ chunk_results = <<>>
    /\ domain_results = <<>>
    /\ save_idx = 0
    /\ saved = <<>>
    /\ last_outcome = NoOutcome
    /\ last_result = Returned(EmptyListings)
    /\ prev_results = <<>>
    /\ failed_in_page = FALSE
    /\ extracted = <<>>

BudgetIdle ==
    /\ api_provider = "together"
    /\ field_words = <<>>
    /\ content_words = 0
    /\ max_tokens_sent = 0
    /\ bpc = "idle"

(***************************************************************************)
(* Specification of the chunker: one call on one input                     *)
(***************************************************************************)
ChunkAlphabet == {"a", "b", " ", ".", "\n"}

InitChunk ==
    /\ content \in SeqUpTo(ChunkAlphabet, MaxTextLen)
    /\ chunk_size \in 0..MaxChunkSize
    /\ chunks = <<>>
    /\ cpc = "ready"
    /\ ParseIdle
    /\ RunIdle
    /\ BudgetIdle

CallChunkContent ==
    /\ cpc = "ready"
    /\ chunks' = chunk_content(content, chunk_size)
    /\ cpc' = "done"
    /\ UNCHANGED <<content, chunk_size, parseVars, runVars, budgetVars>>

NextChunk == CallChunkContent

SpecChunk == InitChunk /\ [][NextChunk]_vars

(***************************************************************************)
(* Specification of the parser: one raw model output is parsed, the result *)
(* is serialized and the serialized text is parsed again                   *)
(***************************************************************************)
\* The JSON-like texts a model may put into its answer
Bodies == {
    ObjText(ListingsKey, <<"[">> \o RecordA1 \o <<"]">>),
    ObjText(ListingsKey, <<"[">> \o RecordA1 \o <<",">> \o ObjText(<<"a">>, Lit(<<"json">>)) \o <<"]">>),
    ObjText(ListingsKey, <<"[", "]">>),
    ObjText(ListingsKey, <<"[">> \o ObjText(<<"a">>, Lit(<<EscapedFence>>)) \o <<"]">>),
    ObjText(ListingsKey, <<"[">> \o ObjText(<<"a">>, Lit(<<Fence>>)) \o <<"]">>),
    ObjText(ListingsKey, <<"[">> \o ObjText(<<"a">>, Lit(<<EscapedFence, "json">>)) \o <<"]">>),
    ObjText(ListingsKey, <<"1">>),
    ObjText(ListingsKey, Lit(<<"a">>)),
    ObjText(ListingsKey, <<"[", "1", "]">>),
    RecordA1,
    ObjText(<<"a">>, Lit(<<"1">>) \o <<",">> \o Lit(<<"a">>) \o <<":">> \o Lit(<<"a">>)),
    ObjText(<<"a">>, RecordA1),
    <<"[">> \o RecordA1 \o <<"]">>,
    <<"1", "1">>,
    Lit(<<"a">>),
    <<"{">> \o Lit(<<"a">>) \o <<":">>,
    <<"{", "}">>,
    <<"n", "o", "t", " ", "json", " ", "a", "t", " ", "a", "l", "l">>,
    <<>>
}

\* What a model may put around the JSON text
Wrap(kind, body) ==
    CASE kind = "bare" -> body
      [] kind = "json_fence" -> <<Fence, "json", "\n">> \o body \o <<"\n", Fence>>
      [] kind = "json_fence_open" -> <<Fence, "json", "\n">> \o body
      [] kind = "fence" -> <<Fence, "\n">> \o body \o <<"\n", Fence>>
      [] kind = "labelled_fence" -> <<Fence, "a", "\n">> \o body \o <<"\n", Fence>>
      [] kind = "prose" -> <<"a", ":", " ">> \o body \o <<" ", "a">>
      [] kind = "prose_fence" -> <<"a", " ">> \o body \o <<" ", Fence, "a", Fence>>
      [] kind = "padded" -> <<" ", "\n">> \o body \o <<"\n">>
      [] kind = "trailing_brace" -> body \o <<" ", "}">>

WrapKinds == {"bare", "json_fence", "json_fence_open", "fence", "labelled_fence",
              "prose", "prose_fence", "padded", "trailing_brace"}

ParseInputs == {Wrap(k, b) : k \in WrapKinds, b \in Bodies}

InitParse ==
    /\ raw_text \in ParseInputs
    /\ presult = Returned(EmptyListings)
    /\ dumped = <<>>
    /\ reparsed = Returned(EmptyListings)
    /\ ppc = "ready"
    /\ ChunkIdle
    /\ RunIdle
    /\ BudgetIdle

\* result = parse_api_response(raw_text)
CallParse ==
    /\ ppc = "ready"
    /\ presult' = parse_api_response(raw_text)
    /\ ppc' = IF presult'.kind = "raise" THEN "raised" ELSE "parsed"
    /\ UNCHANGED <<raw_text, dumped, reparsed, chunkVars, runVars, budgetVars>>

\* json.dump of the result, as save_results writes it
Serialize ==
    /\ ppc = "parsed"
    /\ dumped' = json_dump(presult.value, 0)
    /\ ppc' = "dumped"
    /\ UNCHANGED <<raw_text, presult, reparsed, chunkVars, runVars, budgetVars>>

\* parse_api_response on the serialized result
Reparse ==
    /\ ppc = "dumped"
    /\ reparsed' = parse_api_response(dumped)
    /\ ppc' = "done"
    /\ UNCHANGED <<raw_text, presult, dumped, chunkVars, runVars, budgetVars>>

NextParse == CallParse \/ Serialize \/ Reparse

SpecParse == InitParse /\ [][NextParse]_vars

(***************************************************************************)
(* Specification of the run: main, from the loaded configuration to the    *)
(* end of the save loop                                                    *)
(***************************************************************************)
UrlSet == {
    <<"http://", "www.", "a.com", "/", "p">>,
    <<"http://", "a.com", "/", "q">>,
    <<"http://", "b.com", "/", "p">>
}

\* The field list of the run
FieldLists == {<<>>, <<<<"a">>>>}

\* The markdown of a fetched page: no unit, one unit, three units
PageTexts == {
    <<>>,
    <<"a", ".">>,
    <<"a", ".", "\n", "b", ".", " ", "a", ".">>
}

ProviderOutcomes ==
    {[kind |-> k, text |-> <<>>] : k \in ProviderFailures}
    \cup {[kind |-> "ok", text |-> t] : t \in ResponseTexts}

Init ==
    /\ config \in [urls : SeqUpTo(UrlSet, MaxUrls),
                   fields : FieldLists,
                   chunk_size : {1, MaxChunkSize}]
    /\ pc = "start"
    /\ run_status = "running"
    /\ url_idx = 0
    /\ page_chunks = <<>>
    /\ chunk_idx = 0
    /\ chunk_results = <<>>
    /\ domain_results = <<>>
    /\ save_idx = 0
    /\ saved = <<>>
    /\ last_outcome = NoOutcome
    /\ last_result = Returned(EmptyListings)
    /\ prev_results = <<>>
    /\ failed_in_page = FALSE
    /\ extracted = <<>>
    /\ ChunkIdle
    /\ ParseIdle
    /\ BudgetIdle

\* Lines 267-276: the early return without URLs or fields, else the first URL
Start ==
    /\ pc = "start"
    /\ IF config.urls = <<>> \/ config.fields = <<>>
       THEN /\ pc' = "done"
            /\ run_status' = "early_exit"
            /\ url_idx' = url_idx
       ELSE /\ pc' = "fetch"
            /\ run_status' = "running"
            /\ url_idx' = 1
    /\ UNCHANGED <<config, page_chunks, chunk_idx, chunk_results, domain_results,
                   save_idx, saved, last_outcome, last_result, prev_results,
                   failed_in_page, extracted, chunkVars, parseVars, budgetVars>>

\* Where main goes after the page url_idx: the next URL, the save loop, or the end
AfterPage(buckets) ==
    IF url_idx < Len(config.urls) THEN "fetch"
    ELSE IF buckets # <<>> THEN "save"
    ELSE "done"

\* The step to the next URL, shared by `continue` on line 286 and the end of
\* the loop body
NextUrl(buckets) ==
    /\ pc' = AfterPage(buckets)
    /\ run_status' = IF AfterPage(buckets) = "done" THEN "completed" ELSE "running"
    /\ url_idx' = IF url_idx < Len(config.urls) THEN url_idx + 1 ELSE url_idx
    /\ save_idx' = IF AfterPage(buckets) = "save" THEN 1 ELSE save_idx

\* Lines 277-286: the page of the current URL could not be fetched
\* (fetch_page_content returns ""): continue with the next URL
FetchFails ==
    /\ pc = "fetch"
    /\ NextUrl(domain_results)
    /\ UNCHANGED <<config, page_chunks, chunk_idx, chunk_results, domain_results,
                   saved, last_outcome, last_result, prev_results, failed_in_page,
                   extracted, chunkVars, parseVars, budgetVars>>

\* Lines 277-294: the page is fetched, converted and chunked
FetchPage ==
    /\ pc = "fetch"
    /\ \E markdown_content \in PageTexts :
         /\ page_chunks' = chunk_content(markdown_content, config.chunk_size)
         /\ pc' = IF page_chunks' # <<>> THEN "chunk" ELSE "page_end"
    /\ chunk_idx' = 1
    /\ chunk_results' = <<>>
    /\ UNCHANGED <<config, run_status, url_idx, domain_results, save_idx, saved,
                   last_outcome, last_result, prev_results, failed_in_page,
                   extracted, chunkVars, parseVars, budgetVars>>

\* The records a chunk result holds: the items of its listings sequence
RecordsOf(result) ==
    IF result.kind = "return" /\ IsDict(result.value) /\ IsList(get_listings(result.value))
    THEN get_listings(result.value).v
    ELSE <<>>

\* Lines 295-300: one chunk is sent and its listings are added to the page's
\* records.  An exception (a raising process_with_api, the TypeError of
\* extend) ends main in the handler on line 315.
ProcessChunk ==
    /\ pc = "chunk"
    /\ \E outcome \in ProviderOutcomes :
       \E result \in {process_with_api(page_chunks[chunk_idx], config.fields, outcome)} :
       \E got \in {IF result.kind = "return"
                   THEN collect_chunk(chunk_results, result.value)
                   ELSE [ok |-> FALSE, list |-> chunk_results]} :
         /\ last_outcome' = outcome
         /\ last_result' = result
         /\ prev_results' = chunk_results
         /\ failed_in_page' = (failed_in_page \/ outcome.kind \in ProviderFailures)
         /\ extracted' = merge_page(extracted, get_domain_name(config.urls[url_idx]),
                                    RecordsOf(result))
         /\ IF ~got.ok
            THEN /\ pc' = "done"
                 /\ run_status' = "exception"
                 /\ UNCHANGED <<chunk_results, chunk_idx>>
            ELSE /\ chunk_results' = got.list
                 /\ chunk_idx' = chunk_idx + 1
                 /\ pc' = IF chunk_idx = Len(page_chunks) THEN "page_end" ELSE "chunk"
                 /\ UNCHANGED run_status
    /\ UNCHANGED <<config, url_idx, page_chunks, domain_results, save_idx, saved,
                   chunkVars, parseVars, budgetVars>>

\* Lines 302-305: the page's records go into the bucket of its domain, and
\* the loop moves to the next URL.  The locals of the page are dead from here
\* on and are cleared, as is the history of its completion calls.
EndPage ==
    /\ pc = "page_end"
    /\ domain_results' = merge_page(domain_results,
                                    get_domain_name(config.urls[url_idx]), chunk_results)
    /\ NextUrl(domain_results')
    /\ page_chunks' = <<>>
    /\ chunk_idx' = 0
    /\ chunk_results' = <<>>
    /\ last_outcome' = NoOutcome
    /\ last_result' = Returned(EmptyListings)
    /\ prev_results' = <<>>
    /\ failed_in_page' = FALSE
    /\ UNCHANGED <<config, saved, extracted, chunkVars, parseVars, budgetVars>>

\* Lines 308-313: one bucket is handed to save_results with config.urls; the
\* records in the bucket are the objects save_results tags; a failed write is
\* caught in save_results and the loop goes on
SaveDomain ==
    /\ pc = "save"
    /\ \E io \in {"ok", "error"} :
         LET bucket == domain_results[save_idx]
             out == save_results(bucket.results, bucket.domain, config.urls, io)
         IN
         /\ saved' = Append(saved, out)
         /\ domain_results' = [domain_results EXCEPT ![save_idx].results = out.listings]
    /\ save_idx' = save_idx + 1
    /\ pc' = IF save_idx = Len(domain_results) THEN "done" ELSE "save"
    /\ run_status' = IF save_idx = Len(domain_results) THEN "completed" ELSE "running"
    /\ UNCHANGED <<config, url_idx, page_chunks, chunk_idx, chunk_results,
                   last_outcome, last_result, prev_results, failed_in_page,
                   extracted, chunkVars, parseVars, budgetVars>>

Next == Start \/ FetchFails \/ FetchPage \/ ProcessChunk \/ EndPage \/ SaveDomain

Spec == Init /\ [][Next]_vars

(***************************************************************************)
(* Specification of the budget: one request is built for one chunk         *)
(***************************************************************************)
Providers == {"together", "groq"}

\* The word counts of the field names of a run: one or two fields, of one or
\* two words
FieldWordLists == {<<1>>, <<2>>, <<1, 1>>}

\* The word counts of a chunk: small chunks, and chunks that bring the prompt
\* close to the provider's context size or to the point where the context
\* left equals the output ceiling
ContentWordCounts ==
    (0..MaxContentWords)
    \cup {config_max_tokens(p) - SystemPromptWords - UserTemplateWords - k :
              p \in Providers, k \in 0..MaxContentWords}
    \cup {config_max_tokens(p) - config_max_output_tokens(p)
          - SystemPromptWords - UserTemplateWords - k :
              p \in Providers, k \in 0..MaxContentWords}

InitBudget ==
    /\ api_provider \in Providers
    /\ field_words \in FieldWordLists
    /\ content_words \in ContentWordCounts
    /\ max_tokens_sent = 0
    /\ bpc = "ready"
    /\ ChunkIdle
    /\ ParseIdle
    /\ RunIdle

\* Lines 171-186: the request is built
BuildRequest ==
    /\ bpc = "ready"
    /\ max_tokens_sent' = max_output(api_provider, field_words, content_words)
    /\ bpc' = "sent"
    /\ UNCHANGED <<api_provider, field_words, content_words, chunkVars, parseVars, runVars>>

NextBudget == BuildRequest

SpecBudget == InitBudget /\ [][NextBudget]_vars

(***************************************************************************)
(* Claim about the budget                                                  *)
(***************************************************************************)
\* C10: the max_tokens value sent is min(configured_max_output,
\* provider_max_context - prompt_tokens) clamped at zero, so it is never negative.
C10_MaxTokensClamped ==
    bpc = "sent" =>
        /\ max_tokens_sent =
               Max(0, Min(config_max_output_tokens(api_provider),
                          config_max_tokens(api_provider)
                          - (SystemPromptWords + user_prompt_words(field_words, content_words))))
        /\ max_tokens_sent >= 0

\* What the code sends: the minimum itself, without the clamp
MaxTokensIsUnclampedMin ==
    bpc = "sent" =>
        max_tokens_sent =
            Min(config_max_output_tokens(api_provider),
                config_max_tokens(api_provider)
                - (SystemPromptWords + user_prompt_words(field_words, content_words)))

(***************************************************************************)
(* Claims about chunk_content                                              *)
(***************************************************************************)
\* The non-empty trimmed pieces of pieces, in order
RECURSIVE NonEmptyTrimmed(_)
NonEmptyTrimmed(pieces) ==
    IF pieces = <<>> THEN <<>>
    ELSE LET u == StrStrip(Head(pieces)) IN
         (IF u = <<>> THEN <<>> ELSE <<u>>) \o NonEmptyTrimmed(Tail(pieces))

\* The units of the input: split on the period after turning newlines into spaces
InputUnits(text) == NonEmptyTrimmed(StrSplit(StrReplace(text, "\n", " "), "."))

\* The units read back from one chunk: split on the period and trim
ChunkUnits(chunk) == NonEmptyTrimmed(StrSplit(chunk, "."))

RECURSIVE UnitsOfChunks(_)
UnitsOfChunks(cs) ==
    IF cs = <<>> THEN <<>> ELSE ChunkUnits(Head(cs)) \o UnitsOfChunks(Tail(cs))

RECURSIVE SumSizes(_)
SumSizes(us) == IF us = <<>> THEN 0 ELSE sentence_size(Head(us)) + SumSizes(Tail(us))

\* C4: the chunks, split again on the period and trimmed, give exactly the
\* non-empty trimmed units of the input, each once and in the input's order;
\* an input without a non-empty unit gives no chunk.
C4_UnitsPreserved ==
    cpc = "done" =>
        /\ UnitsOfChunks(chunks) = InputUnits(content)
        /\ (InputUnits(content) = <<>> => chunks = <<>>)

\* C4 witness: an input of several units with a newline in it, cut into more
\* than one chunk
C4_Witness ==
    /\ cpc = "done"
    /\ Len(InputUnits(content)) >= 2
    /\ Len(chunks) >= 2
    /\ \E i \in 1..Len(content) : content[i] = "\n"

\* C5: every chunk either fits the budget or is one unit that alone exceeds it
C5_ChunkWithinBudget ==
    cpc = "done" =>
        \A i \in 1..Len(chunks) :
            LET us == ChunkUnits(chunks[i]) IN
            \/ SumSizes(us) <= chunk_size * 10
            \/ /\ Len(us) = 1
               /\ sentence_size(us[1]) > chunk_size * 10

\* C5 witness: an oversize unit alone in its chunk, with units before and after it
\* in chunks of their own
C5_Witness ==
    /\ cpc = "done"
    /\ \E i \in 1..Len(chunks) :
          /\ Len(ChunkUnits(chunks[i])) = 1
          /\ SumSizes(ChunkUnits(chunks[i])) > chunk_size * 10
          /\ i > 1
          /\ i < Len(chunks)

(***************************************************************************)
(* Claims about parse_api_response                                         *)
(***************************************************************************)
\* A well-formed Extraction Result: a mapping whose listings value is a
\* sequence of records
WellFormedResult(j) ==
    /\ IsDict(j)
    /\ HasKey(j, ListingsKey)
    /\ IsList(GetKey(j, ListingsKey))
    /\ \A i \in 1..Len(GetKey(j, ListingsKey).v) : IsDict(GetKey(j, ListingsKey).v[i])

\* The text the documented recovery policy selects: (a) between the first
\* json-labelled fence and its closing fence, (b) the content of the first
\* fenced block, (c) from the first "{" to the last "}", (d) the raw text
PolicySelection(text) ==
    IF HasJsonFence(text)
    THEN LET i == CHOOSE k \in 1..(Len(text) - 1) :
                      /\ text[k] = Fence /\ text[k + 1] = "json"
                      /\ \A m \in 1..(k - 1) : ~(text[m] = Fence /\ text[m + 1] = "json")
             j == FindFrom(text, Fence, i + 2)
         IN Slice(text, i + 2, IF j = 0 THEN Len(text) ELSE j - 1)
    ELSE IF \E i \in 1..Len(text) : text[i] = Fence
    THEN StrSplit(text, Fence)[2]
    ELSE IF FindFrom(text, "{", 1) # 0 /\ RFind(text, "}") >= FindFrom(text, "{", 1)
    THEN Slice(text, FindFrom(text, "{", 1), RFind(text, "}"))
    ELSE text

\* The documented result for a selected text
PolicyResult(text) ==
    LET r == json_loads(PolicySelection(text)) IN
    IF ~r.ok THEN EmptyListings
    ELSE IF ~IsDict(r.val) THEN EmptyListings
    ELSE IF HasKey(r.val, ListingsKey) THEN r.val
    ELSE JObj(<<<<ListingsKey, JArr(<<r.val>>)>>>>)

\* C1: for every raw model output the parser returns normally, and what it
\* returns is a mapping with a listings sequence of records, the empty
\* sequence when the selected text does not decode.
C1_ParseNeverFails ==
    ppc \in {"parsed", "raised"} =>
        /\ presult.kind = "return"
        /\ WellFormedResult(presult.value)
        /\ (~json_loads(PolicySelection(raw_text)).ok => presult.value = EmptyListings)

\* C3: the parser returns what the recovery policy gives: json fence, else any
\* fence, else first "{" to last "}", else the raw text; a mapping with
\* listings as it is, a mapping without it wrapped, anything else empty.
C3_RecoveryPolicy ==
    ppc \in {"parsed", "raised"} => presult = Returned(PolicyResult(raw_text))

\* C9: parsing the serialized form of a parse result gives that result again
\* (stated for the outputs the first parse returned normally).
C9_ParseIdempotent ==
    ppc = "done" => reparsed = presult

(***************************************************************************)
(* Claims about the run                                                    *)
(***************************************************************************)
\* The records of domain d in an ordered mapping domain -> records
Bucket(buckets, d) ==
    IF \E i \in 1..Len(buckets) : buckets[i].domain = d
    THEN buckets[CHOOSE i \in 1..Len(buckets) : buckets[i].domain = d].results
    ELSE <<>>

ConfiguredDomains == {get_domain_name(config.urls[i]) : i \in 1..Len(config.urls)}

\* The loop over the URLs is over and no bucket has been saved yet
UrlLoopEnded == (pc = "save" /\ save_idx = 1) \/ (pc = "done" /\ saved = <<>>)

\* C2: a run with URLs and fields visits every URL and hands every bucket to
\* persistence; no failure of a page, chunk or save ends the run early.
C2_RunNeverAborts ==
    (pc = "done" /\ run_status # "early_exit") =>
        /\ run_status = "completed"
        /\ url_idx = Len(config.urls)
        /\ Len(saved) = Len(domain_results)
        /\ \A i \in 1..Len(saved) : saved[i].domain = domain_results[i].domain

\* C6: when the URLs have all been processed or the run has ended, the bucket
\* of each domain holds exactly the records of the chunk results of that
\* domain's pages, in order, and no bucket is empty.
C6_BucketsHoldAllRecords ==
    UrlLoopEnded =>
        /\ \A d \in ConfiguredDomains : Bucket(domain_results, d) = Bucket(extracted, d)
        /\ \A i \in 1..Len(domain_results) : domain_results[i].results # <<>>

\* What remains of C6 in the runs that the TypeError of extend does not end
BucketsCompleteUnlessAborted ==
    (UrlLoopEnded /\ run_status # "exception") => C6_BucketsHoldAllRecords

\* The URLs stored under source_url in a record
SourceUrls(record) ==
    IF IsDict(record) /\ HasKey(record, <<"source_url">>)
    THEN {GetKey(record, <<"source_url">>).v[k].v :
              k \in 1..Len(GetKey(record, <<"source_url">>).v)}
    ELSE {}

\* C7: every record handed to persistence carries under source_url the URLs of
\* its own domain and no URL of another domain.
C7_SourceUrlOfOwnDomain ==
    \A i \in 1..Len(saved) :
        \A k \in 1..Len(saved[i].listings) :
            /\ IsDict(saved[i].listings[k])
            /\ HasKey(saved[i].listings[k], <<"source_url">>)
            /\ SourceUrls(saved[i].listings[k])
                   = {config.urls[n] : n \in {m \in 1..Len(config.urls) :
                                                 get_domain_name(config.urls[m]) = saved[i].domain}}

\* What the code attaches instead: the whole configured URL list
SourceUrlIsWholeList ==
    \A i \in 1..Len(saved) :
        \A k \in 1..Len(saved[i].listings) :
            GetKey(saved[i].listings[k], <<"source_url">>) = UrlsValue(config.urls)

\* C8: a chunk whose completion call fails gives the empty result, adds no
\* record to the page's list, and every later chunk of the page is still
\* sent: a run never ends inside a page one of whose calls failed.
C8_FailedChunkIsolated ==
    /\ last_outcome.kind \in ProviderFailures =>
           /\ last_result = Returned(EmptyListings)
           /\ chunk_results = prev_results
    /\ (pc = "done" /\ failed_in_page) => chunk_idx > Len(page_chunks)

\* What remains of C8 whatever the later chunks return: the failed call itself
\* gives the empty result, adds nothing and never ends the run; the loop goes
\* on to the next chunk or to the end of the page
FailedCallNeverEndsRun ==
    last_outcome.kind \in ProviderFailures =>
        /\ last_result = Returned(EmptyListings)
        /\ chunk_results = prev_results
        /\ pc \in {"chunk", "page_end"}
        /\ run_status = "running"

====
